---- MODULE Spec2Model ----
(***************************************************************************)
(* LaunchPad process supervisor (src/launchpad.py, class StackController). *)
(*                                                                         *)
(* The model follows the threads of the program: operator commands run in  *)
(* their own thread (App.start_frontend, App.start_backend, ...), timers   *)
(* run their callback in a timer thread, the health monitor is one daemon  *)
(* thread, stop_all runs in a worker thread.  Every action is one stretch  *)
(* of code of one thread between two points where other threads can        *)
(* interleave observably: a `with self.lock` block is one action, and the  *)
(* code between two lock blocks is cut where it acts on a process.         *)
(***************************************************************************)
EXTENDS Integers, Sequences, FiniteSets, TLC

(* ------------------------------ bounds -------------------------------- *)
\* Commands the operator gives in one run (Start Frontend, Run Migrations,
\* Start Backend, Start All, Stop All).
MaxOps == 2
\* Automatic restarts of one key in a row that a run follows.
MaxChain == 1
\* Connections in one enumeration of psutil.net_connections.
MaxConns == 3

(* ------------------------- program constants -------------------------- *)
\* `proc.restart_count < 3` in the monitor.
MaxRestarts == 3
\* `for _ in range(20)` in _terminate.
PollLimit == 20
\* range(120) in the waiter of start_daphne
WaitLimit == 120

Keys == {"redis_docker", "migrate", "daphne", "celery_beat", "celery_worker", "frontend"}

\* The keys _restart_proc knows a start routine for.
RestartKeys == {"daphne", "celery_beat", "celery_worker", "frontend"}

\* auto_restart as each start routine passes it to Proc(...).
AutoRestartOf(k) == k \in {"daphne", "celery_beat", "celery_worker", "frontend"}

\* `order` in stop_all.worker.
StopOrder == <<"frontend", "celery_worker", "celery_beat", "daphne", "redis_docker", "migrate">>

\* Position of a key in the start sequence of start_backend / start_all:
\* ensure_redis, migrate_db, then the timers 1.0 / 1.5 / 2.0 / 3.0 s.
StartStage(k) ==
    CASE k = "redis_docker"  -> 1
      [] k = "migrate"       -> 2
      [] k = "daphne"        -> 3
      [] k = "celery_beat"   -> 4
      [] k = "celery_worker" -> 5
      [] k = "frontend"      -> 6

\* The threads in flight: one per command, and one for a timer that fires.
Threads == 1..(MaxOps + 1)
\* The addresses of the Proc objects in memory: those the table or a thread
\* refers to and those whose OS process is alive.  Python frees the others.
Heap == 1..(Cardinality(Keys) + 1)

\* Exit codes of a process that exits by itself.
ExitCodes == {0, 1}
\* Popen.returncode of a process ended by SIGTERM, by SIGKILL.
SigTermCode == 0 - 15
SigKillCode == 0 - 9

VARIABLES
    procs,     \* self.procs: the dict in insertion order, a sequence of [key, h]
    handles,   \* the Proc objects in memory, by address
    thr,       \* the threads in flight: program counter and locals
    mon,       \* the monitor thread: pc, position in its loop, its variable `key`
    lock,      \* self.lock: "free" or its holder
    rtimers,   \* pending threading.Timer(2.0, lambda: self._restart_proc(key)),
               \* counted by the key the crash was detected on
    stagger,   \* pending threading.Timer(d, self.start_X) of start_backend/start_all
    stopFlag,  \* self._stop_monitoring
    policy,    \* cfg.MIGRATION_POLICY
    ops,       \* the commands the operator has given so far
    orphans,   \* per key, the OS processes alive that no Proc holds any more
    lfail,     \* the keys whose last launch failed, no operator start of the key since
    exited,    \* the interpreter has ended (mainloop returned; its threads are daemons)
    autoOpen,  \* cfg.AUTO_OPEN_BROWSER
    browser,   \* self._browser_opened, the viewer openings done, the opener threads in their loop and those between the test of the flag and its setting
    sinkUp,    \* the state-change sink (status_callback) takes calls; otherwise it raises
    waiter,    \* the readiness waiters of start_daphne: running, probes of the last one
    out        \* what the last step emitted: log lines, callbacks, signals

vars == <<procs, handles, thr, mon, lock, rtimers, stagger, stopFlag, policy, ops, orphans, lfail, exited, autoOpen, browser, sinkUp, waiter, out>>

(* ------------------------------ Proc ---------------------------------- *)
NoError == <<"None">>

\* An address that holds no Proc.
FreeProc ==
    [key |-> "none", auto_restart |-> FALSE, status |-> "FREE",
     p |-> FALSE, start_time |-> FALSE, restart_count |-> 0,
     last_error |-> NoError, os |-> "none", rc |-> 0, chain |-> 0]

\* Proc.__init__; os is the state of the OS process behind proc.p's Popen
\* object ("none" before Popen returned), rc its returncode.  chain records
\* how the Proc came to be: by a command of the operator (0) or as the
\* chain-th automatic restart in a row.
NewProc(k, n) ==
    [key |-> k, auto_restart |-> AutoRestartOf(k), status |-> "STOPPED",
     p |-> FALSE, start_time |-> FALSE, restart_count |-> 0,
     last_error |-> NoError, os |-> "none", rc |-> 0, chain |-> n]

\* A start routine that takes the Proc the table holds instead of making one.
Alloc_Tracked ==
    IF procs # <<>> THEN procs[1].h
    ELSE CHOOSE h \in Heap : handles[h] = FreeProc /\ \A g \in Heap : g < h => handles[g] # FreeProc

\* The address of the Proc a start routine makes: the lowest free one.
Alloc == CHOOSE h \in Heap : handles[h] = FreeProc /\ \A g \in Heap : g < h => handles[g] # FreeProc
HasFree == \E h \in Heap : handles[h] = FreeProc

\* The Procs the table tab or a thread of th refers to.
Used(tab, th) == {tab[i].h : i \in 1..Len(tab)} \cup {th[t].h : t \in Threads}

\* What is left in memory of the Procs hs once the table is tab and the
\* threads are th: a Proc no one refers to is freed.
Collect(hs, tab, th) ==
    [h \in Heap |-> IF h \in Used(tab, th) THEN hs[h] ELSE FreeProc]

\* Freeing a Proc does not end its OS process: if alive, it stays, held by
\* no one.
Leaked(hs, tab, th, k) ==
    Cardinality({h \in Heap : h \notin Used(tab, th) /\ hs[h].key = k /\ hs[h].os = "alive"})

Release(hs, tab, th) ==
    /\ handles' = Collect(hs, tab, th)
    /\ orphans' = [k \in Keys |-> orphans[k] + Leaked(hs, tab, th, k)]

(* --------------------------- self.procs ------------------------------- *)
TableKeys == {procs[i].key : i \in 1..Len(procs)}

\* A lookup that falls back on the first entry of the table.
TableGet_First(k) ==
    IF k \in TableKeys
    THEN (CHOOSE e \in {procs[i] : i \in 1..Len(procs)} : e.key = k).h
    ELSE IF procs # <<>> THEN procs[1].h ELSE 0

\* self.procs.get(key): the handle, 0 for None
TableGet(k) ==
    IF k \in TableKeys
    THEN (CHOOSE e \in {procs[i] : i \in 1..Len(procs)} : e.key = k).h
    ELSE 0

\* self.procs[key] = proc: a dict keeps the position of a key it holds
TablePut(k, h) ==
    IF k \in TableKeys
    THEN [i \in 1..Len(procs) |-> IF procs[i].key = k THEN [key |-> k, h |-> h] ELSE procs[i]]
    ELSE Append(procs, [key |-> k, h |-> h])

\* A pop that leaves the table as it is.
TablePop_Kept(k) == procs

\* self.procs.pop(key, None)
TablePop(k) == SelectSeq(procs, LAMBDA e : e.key # k)

\* The same test with the poll read the wrong way round (`is not None`).
LiveTracked_PollInverted(k) ==
    /\ k \in TableKeys
    /\ handles[TableGet(k)].p
    /\ handles[TableGet(k)].os = "exited"

\* `key in self.procs and self.procs[key].p and self.procs[key].p.poll() is None`
LiveTracked(k) ==
    /\ k \in TableKeys
    /\ handles[TableGet(k)].p
    /\ handles[TableGet(k)].os = "alive"

(* ------------------------------ self.lock ----------------------------- *)
\* A `with self.lock` block that keeps the lock when it is left.
Released_Kept == "thread"

\* The lock as a thread leaves it at the end of a `with self.lock` block.
Released == "free"

(* ----------------------------- threads -------------------------------- *)
\* hit records that a _terminate of the thread's key looked the key up while
\* the thread was in _spawn between its two blocks under the lock; late, that
\* the thread is a timer's that fired with self._stop_monitoring set.
IdleThread == [pc |-> "idle", kind |-> "none", key |-> "none", h |-> 0,
               idx |-> 0, polls |-> 0, want |-> "none", gen |-> 0, hit |-> FALSE,
               late |-> FALSE]

\* A new thread takes the lowest free slot.
FreeSlot(t) ==
    /\ thr[t].pc = "idle"
    /\ \A u \in Threads : u < t => thr[u].pc # "idle"

\* First step of the start routine of a key.
EntryPc(k) ==
    CASE k = "daphne"   -> "sd_conflict"
      [] k = "frontend" -> "fe_check"
      [] OTHER          -> "sp_check"

\* Where a thread goes when _spawn (or the start routine around it) returns.
AfterSpawn(t) ==
    IF thr[t].kind \in {"op_backend", "op_all"} /\ thr[t].key = "redis_docker"
    THEN [thr[t] EXCEPT !.pc = "mig", !.key = "none", !.h = 0, !.hit = FALSE]
    ELSE IF thr[t].kind \in {"op_backend", "op_all"} /\ thr[t].key = "migrate"
    THEN [thr[t] EXCEPT !.pc = "timers", !.key = "none", !.h = 0, !.hit = FALSE]
    ELSE IdleThread

(* ------------------------------ Init ---------------------------------- *)
\* StackController.__init__: an empty table, the monitor started, the viewer
\* not opened yet; the configuration has its default migration policy and
\* "Auto-open browser" as given.
Built(auto) ==
    /\ procs = <<>>
    /\ handles = [h \in Heap |-> FreeProc]
    /\ thr = [t \in Threads |-> IdleThread]
    /\ mon = [pc |-> "sleep", idx |-> 0, key |-> "unbound"]
    /\ lock = "free"
    /\ rtimers = [k \in Keys |-> 0]
    /\ stagger = <<>>
    /\ stopFlag = FALSE
    /\ policy = "manual"
    /\ ops = 0
    /\ orphans = [k \in Keys |-> 0]
    /\ lfail = {}
    /\ exited = FALSE
    /\ autoOpen = auto
    /\ browser = [opened |-> FALSE, opens |-> 0, polling |-> 0, passed |-> 0]
    /\ sinkUp = TRUE
    /\ waiter = [polling |-> 0, probes |-> 0]

\* The supervisor just built: nothing emitted yet.
Boot(auto) == Built(auto) /\ out = <<>>

\* The supervisor with "Auto-open browser" unticked in its configuration.
Init == Boot(FALSE)

\* The supervisor with "Auto-open browser" ticked (the default).
InitBrowser == Boot(TRUE)

\* start_frontend after its _spawn has returned: with AUTO_OPEN_BROWSER, one
\* more opener thread starts polling the frontend URL.
Opener(k) ==
    IF k = "frontend" /\ autoOpen
    THEN [browser EXCEPT !.polling = @ + 1]
    ELSE browser

\* start_daphne after its _spawn has returned: one more waiter thread starts
\* probing the port of the primary server.
Waiter(k) ==
    IF k = "daphne"
    THEN [waiter EXCEPT !.polling = @ + 1]
    ELSE waiter

(* ------------------------------ _spawn -------------------------------- *)
\* A call of status_callback that raises: the exception leaves the routine
\* that made the call.
SinkRaises(k) == <<[e |-> "raise", what |-> "status_callback", key |-> k]>>

\* _spawn, the block under the lock: the idempotence check.  When it passes,
\* the Proc the start routine built (Proc.__init__) is marked STARTING and
\* reported; it is known to this thread only until the commit.  When the
\* report raises, _spawn ends there and the Proc is dropped.
SpawnCheck(t) ==
    /\ thr[t].pc = "sp_check"
    /\ lock = "free"
    /\ LET k == thr[t].key IN
       IF LiveTracked(k)
       THEN /\ out' = <<[e |-> "log", what |-> "already_running", key |-> k]>>
            /\ thr' = [thr EXCEPT ![t] = AfterSpawn(t)]
            /\ browser' = Opener(k)
            /\ waiter' = Waiter(k)
            /\ UNCHANGED handles
       ELSE /\ HasFree
            /\ IF sinkUp
               THEN /\ handles' = [handles EXCEPT ![Alloc] =
                          [NewProc(k, thr[t].gen) EXCEPT !.status = "STARTING"]]
                    /\ thr' = [thr EXCEPT ![t].pc = "sp_launch", ![t].h = Alloc]
                    /\ out' = <<[e |-> "status", key |-> k, status |-> "STARTING"]>>
               ELSE /\ thr' = [thr EXCEPT ![t] = IdleThread]
                    /\ out' = SinkRaises(k)
                    /\ UNCHANGED handles
            /\ UNCHANGED <<browser, waiter>>
    /\ lock' = Released
    /\ UNCHANGED <<procs, mon, rtimers, stagger, stopFlag, policy, ops, orphans, lfail, exited, autoOpen, sinkUp>>

\* subprocess.Popen outside the lock: it returns a process, raises
\* FileNotFoundError (handled) or raises another OSError (not handled: it
\* leaves _spawn and ends the thread).
SpawnLaunch(t) ==
    /\ thr[t].pc = "sp_launch"
    /\ LET h == thr[t].h
           k == thr[t].key IN
       \E res \in {"ok", "FileNotFoundError", "OSError"} :
          CASE res = "ok" ->
                 /\ handles' = [handles EXCEPT ![h].os = "alive", ![h].start_time = TRUE]
                 /\ UNCHANGED <<orphans, lfail, browser, waiter>>
                 /\ thr' = [thr EXCEPT ![t].pc = "sp_commit"]
                 /\ out' = <<[e |-> "popen", key |-> k, h |-> h]>>
            [] res = "FileNotFoundError" ->
                 /\ thr' = [thr EXCEPT ![t] = IF sinkUp THEN AfterSpawn(t) ELSE IdleThread]
                 /\ Release([handles EXCEPT ![h].status = "FAILED",
                                            ![h].last_error = <<"FileNotFoundError">>],
                                       procs, thr')
                 /\ lfail' = lfail \cup {k}
                 /\ browser' = IF sinkUp THEN Opener(k) ELSE browser
                 /\ waiter' = IF sinkUp THEN Waiter(k) ELSE waiter
                 /\ out' = IF sinkUp
                           THEN <<[e |-> "status", key |-> k, status |-> "FAILED"],
                                  [e |-> "notify", what |-> "failed_to_start", key |-> k]>>
                           ELSE SinkRaises(k)
            [] res = "OSError" ->
                 /\ thr' = [thr EXCEPT ![t] = IdleThread]
                 /\ Release(handles, procs, thr')
                 /\ UNCHANGED <<lfail, browser, waiter>>
                 /\ out' = <<[e |-> "raise", what |-> "OSError", key |-> k]>>
    /\ UNCHANGED <<procs, mon, lock, rtimers, stagger, stopFlag, policy, ops, exited, autoOpen, sinkUp>>

\* _spawn, the second block under the lock: record the process, RUNNING,
\* put the Proc in the table.
SpawnCommit(t) ==
    /\ thr[t].pc = "sp_commit"
    /\ lock = "free"
    /\ LET h == thr[t].h
           k == thr[t].key IN
       /\ procs' = TablePut(k, h)
       /\ thr' = [thr EXCEPT ![t].pc = "sp_after"]
       /\ Release([handles EXCEPT ![h].p = TRUE, ![h].status = "RUNNING"],
                             procs', thr')
    /\ out' = <<>>
    /\ UNCHANGED <<mon, lock, rtimers, stagger, stopFlag, policy, ops, lfail, exited, autoOpen, browser, sinkUp, waiter>>

\* _spawn after the lock: the callbacks, with the status as it is then.
SpawnAfter(t) ==
    /\ thr[t].pc = "sp_after"
    /\ LET h == thr[t].h
           k == thr[t].key IN
       out' = IF sinkUp
              THEN <<[e |-> "status", key |-> k, status |-> handles[h].status],
                     [e |-> "notify", what |-> "started", key |-> k]>>
              ELSE SinkRaises(k)
    /\ thr' = [thr EXCEPT ![t] = IF sinkUp THEN AfterSpawn(t) ELSE IdleThread]
    /\ browser' = IF sinkUp THEN Opener(thr[t].key) ELSE browser
    /\ waiter' = IF sinkUp THEN Waiter(thr[t].key) ELSE waiter
    /\ Release(handles, procs, thr')
    /\ UNCHANGED <<procs, mon, lock, rtimers, stagger, stopFlag, policy, ops, lfail, exited, autoOpen, sinkUp>>

(* -------------------------- start routines ---------------------------- *)
\* What the confirmation dialog of _prompt_kill_pids comes to: the operator
\* answers yes or no, askyesno raises, or there is no Tk root (headless).
Surfaces == {"yes", "no", "error", "headless"}

\* A conflict flow that kills without asking when there is no one to ask.
Consent_HeadlessKills(found, surface) == found /\ surface \in {"yes", "headless"}

\* _prompt_kill_pids up to `if not answer: return False`: the listeners are
\* signalled only when some were found and the answer is yes.
Consent(found, surface) == found /\ surface = "yes"

\* _prompt_kill_pids, its result killed_any: the answer was yes and a signal
\* went through (psutil / os.kill did not raise for every pid).
PromptKillPids(found, surface, killOk) == Consent(found, surface) /\ killOk

\* check_port_conflict: TRUE when the conflict stays.  What
\* _prompt_kill_pids returns is dropped; the port is probed again.
CheckPortConflict(open, found, reopen) ==
    IF ~open THEN FALSE
    ELSE IF ~found THEN TRUE
    ELSE reopen

\* A frontend start that goes on whenever the operator said yes.
FrontendClear_NoReprobe(open, found, surface, killOk, reopen) ==
    ~open \/ PromptKillPids(found, surface, killOk)

\* start_frontend, the probe of its port: TRUE when the routine goes on to
\* its spawn, FALSE when it returns ("Aborting frontend start").
FrontendClear(open, found, surface, killOk, reopen) ==
    ~open \/ (found /\ PromptKillPids(found, surface, killOk) /\ ~reopen)

\* What the conflict flow emits for key k: the warning, the question put to
\* the operator with what came of it, the signals sent.
ConflictEvents(k, open, found, surface, killOk) ==
    IF ~open THEN <<>>
    ELSE <<[e |-> "log", what |-> "port_in_use", key |-> k]>>
         \o (IF found THEN <<[e |-> "prompt", key |-> k, answer |-> surface]>> ELSE <<>>)
         \o (IF PromptKillPids(found, surface, killOk)
             THEN <<[e |-> "conflict_kill", key |-> k]>> ELSE <<>>)

\* start_frontend, the line it logs when it gives up: the listeners could not
\* be identified, the conflict was not resolved, or the port is still in use
\* after the kill.
AbortLog(open, found, surface, killOk, reopen) ==
    IF ~open THEN <<>>
    ELSE IF ~found
    THEN <<[e |-> "log", what |-> "abort_unidentified", key |-> "frontend"]>>
    ELSE IF ~PromptKillPids(found, surface, killOk)
    THEN <<[e |-> "log", what |-> "abort_not_resolved", key |-> "frontend"]>>
    ELSE IF reopen
    THEN <<[e |-> "log", what |-> "abort_still_in_use", key |-> "frontend"]>>
    ELSE <<>>

\* The listeners are sent terminate (and kill after 3 s).  The processes of
\* key k that are alive can be such listeners, those of the supervisor
\* included (own), or the listeners are other programs.
KillListeners(k) ==
    [h \in Heap |-> IF handles[h].key = k /\ handles[h].os = "alive"
                    THEN [handles[h] EXCEPT !.os = "exited", !.rc = SigTermCode]
                    ELSE handles[h]]

\* start_frontend goes to the port probe whatever the table holds.
FrontendManaged_Unchecked == FALSE

\* The check start_frontend makes first, under the lock: `"frontend" in
\* self.procs and self.procs["frontend"].p and
\* self.procs["frontend"].p.poll() is None`
FrontendManaged == LiveTracked("frontend")

\* start_frontend up to its _spawn: its own check under the lock, then the
\* probe of its port and the conflict flow.
FrontendCheck(t) ==
    /\ thr[t].pc = "fe_check"
    /\ lock = "free"
    /\ IF FrontendManaged
       THEN /\ out' = <<[e |-> "log", what |-> "already_running", key |-> "frontend"]>>
            /\ thr' = [thr EXCEPT ![t] = IdleThread]
            /\ UNCHANGED <<handles, orphans>>
       ELSE \E open, found, killOk, reopen, own \in BOOLEAN : \E surface \in Surfaces :
               /\ IF open /\ PromptKillPids(found, surface, killOk) /\ own
                  THEN /\ handles' = KillListeners("frontend")
                       /\ orphans' = [orphans EXCEPT !["frontend"] = 0]
                  ELSE UNCHANGED <<handles, orphans>>
               /\ out' = ConflictEvents("frontend", open, found, surface, killOk)
                         \o AbortLog(open, found, surface, killOk, reopen)
               /\ thr' = [thr EXCEPT ![t] =
                             IF FrontendClear(open, found, surface, killOk, reopen)
                             THEN [thr[t] EXCEPT !.pc = "sp_check"]
                             ELSE IdleThread]
    /\ UNCHANGED <<procs, mon, lock, rtimers, stagger, stopFlag, policy, ops, lfail, exited, autoOpen, browser, sinkUp, waiter>>

\* start_daphne, check_port_conflict before the spawn; the start goes on
\* whatever it returns.
DaphneConflict(t) ==
    /\ thr[t].pc = "sd_conflict"
    /\ thr' = [thr EXCEPT ![t].pc = "sp_check"]
    /\ \E open, found, killOk, reopen, own \in BOOLEAN : \E surface \in Surfaces :
          /\ IF open /\ PromptKillPids(found, surface, killOk) /\ own
             THEN /\ handles' = KillListeners("daphne")
                  /\ orphans' = [orphans EXCEPT !["daphne"] = 0]
             ELSE UNCHANGED <<handles, orphans>>
          /\ out' = ConflictEvents("daphne", open, found, surface, killOk)
                    \o (IF open /\ ~CheckPortConflict(open, found, reopen)
                        THEN <<[e |-> "log", what |-> "port_freed", key |-> "daphne"]>>
                        ELSE <<>>)
    /\ UNCHANGED <<procs, mon, lock, rtimers, stagger, stopFlag, policy, ops, lfail, exited, autoOpen, browser, sinkUp, waiter>>

\* ensure_redis up to its _spawn: Redis answers, or no docker is configured
\* (both return), or the docker container is launched.  The wait for Redis
\* after the spawn (40 probes) changes nothing of the supervisor.
EnsureRedis(t) ==
    /\ thr[t].pc = "er_probe"
    /\ \E res \in {"reachable", "no_docker", "launch"} :
          thr' = [thr EXCEPT ![t] = IF res = "launch"
                                    THEN [thr[t] EXCEPT !.pc = "sp_check", !.key = "redis_docker"]
                                    ELSE [thr[t] EXCEPT !.pc = "mig"]]
    /\ out' = <<>>
    /\ UNCHANGED <<procs, handles, mon, lock, rtimers, stagger, stopFlag, policy, ops, orphans, lfail, exited, autoOpen, browser, sinkUp, waiter>>

\* `self.cfg.MIGRATION_POLICY == "always"`
MigrateWanted == policy = "always"

\* start_backend: `if self.cfg.MIGRATION_POLICY == "always": self.migrate_db()`
MigrateStage(t) ==
    /\ thr[t].pc = "mig"
    /\ thr' = [thr EXCEPT ![t] = IF MigrateWanted
                                 THEN [thr[t] EXCEPT !.pc = "sp_check", !.key = "migrate"]
                                 ELSE [thr[t] EXCEPT !.pc = "timers"]]
    /\ out' = <<>>
    /\ UNCHANGED <<procs, handles, mon, lock, rtimers, stagger, stopFlag, policy, ops, orphans, lfail, exited, autoOpen, browser, sinkUp, waiter>>

\* A start sequence that sets the timer of the frontend before the others.
StaggerOf_FrontendFirst(kind) ==
    IF kind = "op_all"
    THEN <<"frontend", "daphne", "celery_beat", "celery_worker">>
    ELSE <<"daphne", "celery_beat", "celery_worker">>

\* The timers of start_backend (and the one of start_all after it).
StaggerOf(kind) ==
    IF kind = "op_all"
    THEN <<"daphne", "celery_beat", "celery_worker", "frontend">>
    ELSE <<"daphne", "celery_beat", "celery_worker">>

ScheduleTimers(t) ==
    /\ thr[t].pc = "timers"
    /\ stagger' = stagger \o StaggerOf(thr[t].kind)
    /\ thr' = [thr EXCEPT ![t] = IdleThread]
    /\ out' = <<>>
    /\ UNCHANGED <<procs, handles, mon, lock, rtimers, stopFlag, policy, ops, orphans, lfail, exited, autoOpen, browser, sinkUp, waiter>>

\* A stagger timer fires: its thread runs the start routine it was given.
\* The timers of one start sequence are 0.5 s or more apart and fire in order.
StaggerFire(t) ==
    /\ stagger # <<>>
    /\ FreeSlot(t)
    /\ thr' = [thr EXCEPT ![t] = [IdleThread EXCEPT !.kind = "timer_start",
                                      !.key = Head(stagger), !.pc = EntryPc(Head(stagger)),
                                      !.late = stopFlag]]
    /\ stagger' = Tail(stagger)
    /\ out' = <<>>
    /\ UNCHANGED <<procs, handles, mon, lock, rtimers, stopFlag, policy, ops, orphans, lfail, exited, autoOpen, browser, sinkUp, waiter>>

(* ------------------------ operator commands --------------------------- *)
\* The keys a command of the operator starts.
StartedBy(kind) ==
    CASE kind = "op_frontend" -> {"frontend"}
      [] kind = "op_migrate"  -> {"migrate"}
      [] kind = "op_backend"  -> Keys \ {"frontend"}
      [] kind = "op_all"      -> Keys

\* App.start_frontend: a thread running controller.start_frontend
OpStartFrontend(t) ==
    /\ FreeSlot(t)
    /\ ops < MaxOps
    /\ ops' = ops + 1
    /\ thr' = [thr EXCEPT ![t] = [IdleThread EXCEPT !.kind = "op_frontend",
                                      !.key = "frontend", !.pc = "fe_check"]]
    /\ lfail' = lfail \ StartedBy("op_frontend")
    /\ out' = <<>>
    /\ UNCHANGED <<procs, handles, mon, lock, rtimers, stagger, stopFlag, policy, orphans, exited, autoOpen, browser, sinkUp, waiter>>

\* App.run_migrations: a thread running controller.migrate_db
OpRunMigrations(t) ==
    /\ FreeSlot(t)
    /\ ops < MaxOps
    /\ ops' = ops + 1
    /\ thr' = [thr EXCEPT ![t] = [IdleThread EXCEPT !.kind = "op_migrate",
                                      !.key = "migrate", !.pc = "sp_check"]]
    /\ lfail' = lfail \ StartedBy("op_migrate")
    /\ out' = <<>>
    /\ UNCHANGED <<procs, handles, mon, lock, rtimers, stagger, stopFlag, policy, orphans, exited, autoOpen, browser, sinkUp, waiter>>

\* App.start_backend / App.start_all: a thread running controller.start_backend
\* (and, for start_all, the frontend timer after it)
OpStartBackend(t) ==
    /\ FreeSlot(t)
    /\ ops < MaxOps
    /\ ops' = ops + 1
    /\ \E kind \in {"op_backend", "op_all"} :
          /\ thr' = [thr EXCEPT ![t] = [IdleThread EXCEPT !.kind = kind, !.pc = "er_probe"]]
          /\ lfail' = lfail \ StartedBy(kind)
    /\ out' = <<>>
    /\ UNCHANGED <<procs, handles, mon, lock, rtimers, stagger, stopFlag, policy, orphans, exited, autoOpen, browser, sinkUp, waiter>>

\* ConfigDialog saved: App.open_config.on_save sets controller.cfg
OpConfigure ==
    /\ \E pol \in {"manual", "always"} :
          /\ pol # policy
          /\ policy' = pol
    /\ out' = <<>>
    /\ UNCHANGED <<procs, handles, thr, mon, lock, rtimers, stagger, stopFlag, ops, orphans, lfail, exited, autoOpen, browser, sinkUp, waiter>>

(* --------------------------- health monitor --------------------------- *)
\* The same test without `proc.status == ProcessStatus.RUNNING`.
Crashed_AnyStatus(h) ==
    /\ handles[h].p
    /\ handles[h].os = "exited"

\* `proc.p and proc.p.poll() is not None and proc.status == ProcessStatus.RUNNING`
Crashed(h) ==
    /\ handles[h].p
    /\ handles[h].os = "exited"
    /\ handles[h].status = "RUNNING"

\* The same test without `proc.auto_restart`.
WillRestart_AnyService(h) == handles[h].restart_count < MaxRestarts

\* `proc.auto_restart and proc.restart_count < 3`
WillRestart(h) ==
    /\ handles[h].auto_restart
    /\ handles[h].restart_count < MaxRestarts

\* A monitor that never sees the flag set.
StopRequested_Never == FALSE

\* `self._stop_monitoring` as the monitor reads it in the test of its loop.
StopRequested == stopFlag

\* A loop that goes on whatever the flag: `while True`.
AfterTick_NoTest == [mon EXCEPT !.pc = "sleep", !.idx = 0]

\* `while not self._stop_monitoring` after a tick, before the next sleep
AfterTick == [mon EXCEPT !.pc = IF StopRequested THEN "exit" ELSE "sleep", !.idx = 0]

\* The monitor keeps the lock when its tick ends.
TickReleased_Held == "monitor"

\* The lock when the monitor leaves its `with self.lock:` block, at the end
\* of the loop over the table or by an exception.
TickReleased == "free"

\* One turn of `for key, proc in list(self.procs.items())`, on entry i of the
\* table (which no one changes while the monitor holds the lock); after the
\* last entry the lock is released.  The turn ends with the call of
\* status_callback: when that raises, the exception leaves the loop, the
\* `with self.lock` block and `monitor` itself, and the thread is over.
MonitorVisit(i) ==
    LET k == procs[i].key
        h == procs[i].h
        report(st) == IF sinkUp THEN <<[e |-> "status", key |-> k, status |-> st]>>
                      ELSE SinkRaises(k) IN
    /\ IF Crashed(h)
       THEN IF WillRestart(h)
            THEN /\ handles' = [handles EXCEPT
                        ![h].status = "FAILED",
                        ![h].last_error = <<"Exited with code", handles[h].rc>>,
                        ![h].restart_count = @ + 1]
                 /\ rtimers' = [rtimers EXCEPT ![k] = @ + 1]
                 /\ out' = <<[e |-> "log", what |-> "crashed", key |-> k],
                             [e |-> "notify", what |-> "crash", key |-> k],
                             [e |-> "log", what |-> "auto_restart", key |-> k]>>
                            \o report("FAILED")
            ELSE /\ handles' = [handles EXCEPT
                        ![h].status = "FAILED",
                        ![h].last_error = <<"Exited with code", handles[h].rc>>]
                 /\ UNCHANGED rtimers
                 /\ out' = <<[e |-> "log", what |-> "crashed", key |-> k],
                             [e |-> "notify", what |-> "crash", key |-> k]>>
                            \o report("FAILED")
       ELSE /\ UNCHANGED <<handles, rtimers>>
            /\ out' = report(handles[h].status)
    /\ IF ~sinkUp
       THEN /\ mon' = [mon EXCEPT !.pc = "dead", !.idx = 0, !.key = k]
            /\ lock' = TickReleased
       ELSE IF i < Len(procs)
       THEN /\ mon' = [mon EXCEPT !.pc = "iter", !.idx = i + 1, !.key = k]
            /\ lock' = "monitor"
       ELSE /\ mon' = [AfterTick EXCEPT !.key = k]
            /\ lock' = TickReleased

\* The monitor wakes from time.sleep(2), takes the lock and starts its loop.
MonitorTick ==
    /\ mon.pc = "sleep"
    /\ lock = "free"
    /\ IF procs = <<>>
       THEN /\ mon' = AfterTick
            /\ out' = <<>>
            /\ UNCHANGED <<handles, rtimers, lock>>
       ELSE MonitorVisit(1)
    /\ UNCHANGED <<procs, thr, stagger, stopFlag, policy, ops, orphans, lfail, exited, autoOpen, browser, sinkUp, waiter>>

\* The loop goes on, the lock held.
MonitorCheck ==
    /\ mon.pc = "iter"
    /\ MonitorVisit(mon.idx)
    /\ UNCHANGED <<procs, thr, stagger, stopFlag, policy, ops, orphans, lfail, exited, autoOpen, browser, sinkUp, waiter>>

(* --------------------------- restart timers --------------------------- *)
\* The crash loop is followed one restart past the program's maximum.
ChainCap == MaxRestarts + 1

ChainOf(k) == IF TableGet(k) = 0 THEN 0 ELSE handles[TableGet(k)].chain

\* A restart timer fires: `lambda: self._restart_proc(key)` reads the
\* monitor's variable `key` as it is now.  `want` remembers the key the crash
\* was detected on.
RestartFire(t) ==
    /\ FreeSlot(t)
    /\ \E k \in Keys :
          /\ rtimers[k] > 0
          /\ rtimers' = [rtimers EXCEPT ![k] = @ - 1]
          /\ thr' = [thr EXCEPT ![t] = [IdleThread EXCEPT !.kind = "timer_restart",
                                            !.key = mon.key, !.want = k, !.pc = "rp_check",
                                            !.late = stopFlag]]
    /\ out' = <<>>
    /\ UNCHANGED <<procs, handles, mon, lock, stagger, stopFlag, policy, ops, orphans, lfail, exited, autoOpen, browser, sinkUp, waiter>>

\* A _restart_proc without `if not proc: return`.
RestartRoutine_NoLookup(k) ==
    IF k \in RestartKeys THEN EntryPc(k) ELSE "idle"

\* _restart_proc(k), where it goes on: it returns when the key is not in the
\* table and when the if/elif chain has no branch for the key; otherwise it
\* enters the start routine of the key.
RestartRoutine(k) ==
    IF TableGet(k) = 0 THEN "idle"
    ELSE IF k \in RestartKeys THEN EntryPc(k)
    ELSE "idle"

\* _restart_proc: the lookup under the lock, then the if/elif chain.
RestartProc(t) ==
    /\ thr[t].pc = "rp_check"
    /\ lock = "free"
    /\ LET k == thr[t].key
           n == IF ChainOf(k) < ChainCap THEN ChainOf(k) + 1 ELSE ChainCap IN
       thr' = [thr EXCEPT ![t] =
                  IF RestartRoutine(k) = "idle" THEN IdleThread
                  ELSE [thr[t] EXCEPT !.pc = RestartRoutine(k), !.gen = n]]
    /\ out' = <<>>
    /\ UNCHANGED <<procs, handles, mon, lock, rtimers, stagger, stopFlag, policy, ops, orphans, lfail, exited, autoOpen, browser, sinkUp, waiter>>

(* ------------------------------ opener -------------------------------- *)
\* The frontend URL answers: a frontend process is up.
HttpOk == \E h \in Heap : handles[h].key = "frontend" /\ handles[h].os = "alive"

\* An opener thread in its loop: `if self._http_ok(...)`, then the test
\* `if not self._browser_opened`.  With the flag set it returns; otherwise it
\* goes on to set the flag, which is a separate moment: nothing holds the
\* other openers back in between.
OpenerPoll ==
    /\ browser.polling > 0
    /\ HttpOk
    /\ browser' = IF browser.opened
                  THEN [browser EXCEPT !.polling = @ - 1]
                  ELSE [browser EXCEPT !.polling = @ - 1, !.passed = @ + 1]
    /\ out' = <<>>
    /\ UNCHANGED <<procs, handles, thr, mon, lock, rtimers, stagger, stopFlag, policy, ops,
                   orphans, lfail, exited, autoOpen, sinkUp, waiter>>

\* `self._browser_opened = True`, the log line and webbrowser.open.
OpenerOpen ==
    /\ browser.passed > 0
    /\ browser' = [browser EXCEPT !.passed = @ - 1, !.opened = TRUE, !.opens = @ + 1]
    /\ out' = <<[e |-> "open_browser", key |-> "frontend"]>>
    /\ UNCHANGED <<procs, handles, thr, mon, lock, rtimers, stagger, stopFlag, policy, ops,
                   orphans, lfail, exited, autoOpen, sinkUp, waiter>>

\* The 240 polls of an opener have all failed: it logs a warning and ends.
OpenerTimeout ==
    /\ browser.polling > 0
    /\ browser' = [browser EXCEPT !.polling = @ - 1]
    /\ out' = <<[e |-> "log", what |-> "url_not_reachable", key |-> "frontend"]>>
    /\ UNCHANGED <<procs, handles, thr, mon, lock, rtimers, stagger, stopFlag, policy, ops,
                   orphans, lfail, exited, autoOpen, sinkUp, waiter>>

(* ------------------------ _find_pids_on_port -------------------------- *)
\* One entry of psutil.net_connections(kind='inet'): whether its local port
\* is the one asked for, whether it is in LISTEN state, its pid (NoPid for
\* None) and what psutil.Process(pid) tells of it (name and command line, or
\* 'unknown' and '' when that raises).
NoPid == 0
Conns == [here : BOOLEAN, listen : BOOLEAN, pid : {NoPid, 1, 2}, info : {"a", "b"}]

RECURSIVE SeqsUpTo(_)
SeqsUpTo(n) ==
    IF n = 0 THEN {<<>>}
    ELSE LET shorter == SeqsUpTo(n - 1) IN
         shorter \cup {Append(q, c) : q \in {r \in shorter : Len(r) = n - 1}, c \in Conns}

Enumerations == SeqsUpTo(MaxConns)

\* The loop over the connections: `results.append((pid, name, cmd))` for
\* each listener of the port that has a pid.
RECURSIVE Results(_)
Results(raw) ==
    IF raw = <<>> THEN <<>>
    ELSE LET c == Head(raw) IN
         (IF c.here /\ c.listen /\ c.pid # NoPid
          THEN <<[pid |-> c.pid, info |-> c.info]>>
          ELSE <<>>) \o Results(Tail(raw))

\* A de-dup in which a later entry of a pid replaces the earlier one.
RECURSIVE Dedup_LastWins(_, _, _)
Dedup_LastWins(results, seen, uniq) ==
    IF results = <<>> THEN uniq
    ELSE LET r == Head(results) IN
         IF r.pid \notin seen
         THEN Dedup_LastWins(Tail(results), seen \cup {r.pid}, Append(uniq, r))
         ELSE Dedup_LastWins(Tail(results), seen,
                             [i \in 1..Len(uniq) |-> IF uniq[i].pid = r.pid THEN r ELSE uniq[i]])

\* `for pid, name, cmd in results: if pid not in seen: uniq.append(...);
\* seen.add(pid)`
RECURSIVE Dedup(_, _, _)
Dedup(results, seen, uniq) ==
    IF results = <<>> THEN uniq
    ELSE LET r == Head(results) IN
         IF r.pid \notin seen
         THEN Dedup(Tail(results), seen \cup {r.pid}, Append(uniq, r))
         ELSE Dedup(Tail(results), seen, uniq)

\* _find_pids_on_port on the enumeration raw (with psutil).
find_pids_on_port(raw) == Dedup(Results(raw), {}, <<>>)

\* A call of _find_pids_on_port on the enumeration it got.
FindPids ==
    /\ out # <<>> /\ out[1].e = "net_connections"
    /\ out' = <<[e |-> "listeners", raw |-> out[1].raw, uniq |-> find_pids_on_port(out[1].raw)]>>
    /\ UNCHANGED <<procs, handles, thr, mon, lock, rtimers, stagger, stopFlag, policy, ops,
                   orphans, lfail, exited, autoOpen, browser, sinkUp, waiter>>

(* ----------------------------- _http_ok ------------------------------- *)
\* What HTTPConnection.request / getresponse come to: a response with a
\* status code (getresponse itself passes over 100 Continue), or none (the
\* URL does not parse, the connection is refused or times out: an exception).
NoResponse == 0
Statuses == 101..599
Responses == Statuses \cup {NoResponse}

\* `return 200 <= resp.status < 500`, and `except Exception: return False`
http_ok(resp) == resp # NoResponse /\ 200 <= resp /\ resp < 500

\* A call of _http_ok on the response it got.
HttpProbe ==
    /\ out # <<>> /\ out[1].e = "response"
    /\ out' = <<[e |-> "http_ok", status |-> out[1].status, ok |-> http_ok(out[1].status)]>>
    /\ UNCHANGED <<procs, handles, thr, mon, lock, rtimers, stagger, stopFlag, policy, ops,
                   orphans, lfail, exited, autoOpen, browser, sinkUp, waiter>>

(* ------------------------ the readiness waiter ------------------------ *)
\* A waiter that probes until the port answers, however long that takes.
WaiterLoop_NoLimit(openAt) == openAt

\* The probes made by `for _ in range(120): if self._tcp_open(...): ...
\* return; time.sleep(0.5)` when the port first answers at probe number
\* openAt (more than WaitLimit: at none of them): up to the first probe of
\* the range that is answered, or the whole range.
WaiterLoop(openAt) ==
    LET answered == {i \in 1..WaitLimit : i >= openAt} IN
    IF answered = {} THEN WaitLimit
    ELSE CHOOSE i \in answered : \A j \in answered : i <= j

\* When the port of the primary server first answers: at the first probe,
\* at the second, at the last, or at none.
OpenAt == {1, 2, WaitLimit, WaitLimit + 1}

\* A waiter thread of start_daphne, from its first probe to its end.  It
\* probes the port only, so it is one step: the port answers in time or
\* not, and a line is logged (FETCH_OPENAPI is off, its default).
WaiterRun ==
    /\ waiter.polling > 0
    /\ \E openAt \in OpenAt :
          /\ waiter' = [polling |-> waiter.polling - 1, probes |-> WaiterLoop(openAt)]
          /\ out' = IF openAt <= WaitLimit
                    THEN <<[e |-> "log", what |-> "daphne_reachable", key |-> "daphne"]>>
                    ELSE <<[e |-> "log", what |-> "daphne_not_reachable", key |-> "daphne"]>>
    /\ UNCHANGED <<procs, handles, thr, mon, lock, rtimers, stagger, stopFlag, policy, ops,
                   orphans, lfail, exited, autoOpen, browser, sinkUp>>

(* ---------------------------- the processes --------------------------- *)
\* A launched process exits by itself.
ProcExit ==
    /\ \E h \in Heap, c \in ExitCodes :
          /\ handles[h].os = "alive"
          /\ Release([handles EXCEPT ![h].os = "exited", ![h].rc = c], procs, thr)
    /\ out' = <<>>
    /\ UNCHANGED <<procs, thr, mon, lock, rtimers, stagger, stopFlag, policy, ops, lfail, exited, autoOpen, browser, sinkUp, waiter>>

(* ----------------------- _terminate and stop_all ---------------------- *)
\* The stop_all worker goes on to the next key of `order`, and ends after
\* the last one (the port checks that follow only log).
NextKey(t) ==
    IF thr[t].idx < Len(StopOrder)
    THEN [thr[t] EXCEPT !.pc = "t_get", !.idx = @ + 1, !.key = StopOrder[thr[t].idx + 1],
                        !.h = 0, !.polls = 0]
    ELSE IdleThread

\* App.stop_all: a thread running controller.stop_all, whose worker thread
\* does the work.
OpStopAll(t) ==
    /\ FreeSlot(t)
    /\ ops < MaxOps
    /\ ops' = ops + 1
    /\ thr' = [thr EXCEPT ![t] = [IdleThread EXCEPT !.kind = "stop_all", !.pc = "t_get",
                                      !.idx = 1, !.key = StopOrder[1]]]
    /\ out' = <<>>
    /\ UNCHANGED <<procs, handles, mon, lock, rtimers, stagger, stopFlag, policy, orphans, lfail, exited, autoOpen, browser, sinkUp, waiter>>

\* App.on_close (the window closed, or Quit in the tray menu): the shutdown
\* flag is set, stop_all starts its worker, the window is destroyed.
OnClose(t) ==
    /\ ~stopFlag
    /\ FreeSlot(t)
    /\ stopFlag' = TRUE
    /\ thr' = [thr EXCEPT ![t] = [IdleThread EXCEPT !.kind = "stop_all", !.pc = "t_get",
                                      !.idx = 1, !.key = StopOrder[1]]]
    /\ out' = <<>>
    /\ UNCHANGED <<procs, handles, mon, lock, rtimers, stagger, policy, ops, orphans, lfail, exited, autoOpen, browser, sinkUp, waiter>>

\* After destroy() the mainloop returns and the interpreter ends: every thread
\* of the supervisor is a daemon (the timers too, made by daemon threads) and
\* ends with it, wherever it is, and its memory is gone; the processes
\* launched stay, held by no one.
InterpreterExit ==
    /\ stopFlag
    /\ ~exited
    /\ exited' = TRUE
    /\ thr' = [t \in Threads |-> IdleThread]
    /\ mon' = [mon EXCEPT !.pc = "exit", !.idx = 0]
    /\ lock' = "free"
    /\ procs' = <<>>
    /\ rtimers' = [k \in Keys |-> 0]
    /\ stagger' = <<>>
    /\ Release(handles, procs', thr')
    /\ out' = <<>>
    /\ browser' = [browser EXCEPT !.polling = 0, !.passed = 0]
    /\ waiter' = [waiter EXCEPT !.polling = 0]
    /\ UNCHANGED <<stopFlag, policy, ops, lfail, autoOpen, sinkUp>>

\* _terminate up to its wait: `proc = self.procs.get(key)` under the lock,
\* `if not proc or not proc.p: return`, then `if proc.p.poll() is None:
\* proc.p.terminate()`.
TerminateGet(t) ==
    /\ thr[t].pc = "t_get"
    /\ lock = "free"
    /\ LET h == TableGet(thr[t].key)
           seen == [u \in Threads |->
                      IF thr[u].pc \in {"sp_launch", "sp_commit"} /\ thr[u].key = thr[t].key
                      THEN [thr[u] EXCEPT !.hit = TRUE] ELSE thr[u]] IN
       IF h = 0 \/ ~handles[h].p
       THEN /\ thr' = [seen EXCEPT ![t] = NextKey(t)]
            /\ out' = <<>>
       ELSE IF handles[h].os = "alive"
       THEN /\ thr' = [seen EXCEPT ![t].pc = "t_wait", ![t].h = h]
            /\ out' = <<[e |-> "signal", what |-> "terminate", h |-> h]>>
       ELSE /\ thr' = [seen EXCEPT ![t].pc = "t_commit", ![t].h = h]
            /\ out' = <<>>
    /\ lock' = Released
    /\ UNCHANGED <<procs, handles, mon, rtimers, stagger, stopFlag, policy, ops, orphans, lfail, exited, autoOpen, browser, sinkUp, waiter>>

\* The polls made by `for _ in range(20): if proc.p.poll() is not None:
\* break; time.sleep(0.2)` when the process is first seen exited at poll
\* number `seen` (more than PollLimit: at none of them).
RECURSIVE PollLoop(_, _)
PollLoop(i, seen) ==
    IF i > PollLimit THEN PollLimit
    ELSE IF i >= seen THEN i
    ELSE PollLoop(i + 1, seen)

\* When the terminated process is first seen exited: at the first poll, at
\* the second, at the last, or at none.
SeenAt == {1, 2, PollLimit, PollLimit + 1}

\* The poll loop of _terminate.  It reads the process only, so it is one
\* step, in which the process exits on the signal or not; a process that had
\* exited before is seen so at the first poll.
TerminatePoll(t) ==
    /\ thr[t].pc = "t_wait"
    /\ LET h == thr[t].h IN
       \E seen \in SeenAt :
          /\ handles[h].os = "exited" => seen = 1
          /\ thr' = [thr EXCEPT ![t].pc = "t_kill", ![t].polls = PollLoop(1, seen)]
          /\ handles' = IF handles[h].os = "alive" /\ seen <= PollLimit
                        THEN [handles EXCEPT ![h].os = "exited", ![h].rc = SigTermCode]
                        ELSE handles
    /\ out' = <<>>
    /\ UNCHANGED <<procs, mon, lock, rtimers, stagger, stopFlag, policy, ops, orphans, lfail, exited, autoOpen, browser, sinkUp, waiter>>

\* No kill, whatever the process does.
KillNeeded_Never(h) == FALSE

\* `if proc.p.poll() is None` after the loop
KillNeeded(h) == handles[h].os = "alive"

\* _terminate after the loop: `if proc.p.poll() is None: proc.p.kill()`
TerminateKill(t) ==
    /\ thr[t].pc = "t_kill"
    /\ LET h == thr[t].h IN
       IF KillNeeded(h)
       THEN /\ handles' = [handles EXCEPT ![h].os = "exited", ![h].rc = SigKillCode]
            /\ out' = <<[e |-> "signal", what |-> "kill", h |-> h]>>
       ELSE /\ UNCHANGED handles
            /\ out' = <<>>
    /\ thr' = [thr EXCEPT ![t].pc = "t_commit"]
    /\ UNCHANGED <<procs, mon, lock, rtimers, stagger, stopFlag, policy, ops, orphans, lfail, exited, autoOpen, browser, sinkUp, waiter>>

\* _terminate, the last block under the lock: STOPPED, the callback with the
\* status just set (`was` notes the status it replaced), the pop.
TerminateCommit(t) ==
    /\ thr[t].pc = "t_commit"
    /\ lock = "free"
    /\ LET h == thr[t].h
           k == thr[t].key
           stopped == [handles EXCEPT ![h].status = "STOPPED"] IN
       /\ procs' = IF sinkUp THEN TablePop(k) ELSE procs
       /\ thr' = [thr EXCEPT ![t] = NextKey(t)]
       /\ out' = IF sinkUp
                 THEN <<[e |-> "status", key |-> k, status |-> stopped[h].status,
                         was |-> handles[h].status]>>
                 ELSE SinkRaises(k)
       /\ Release(stopped, procs', thr')
    /\ UNCHANGED <<mon, lock, rtimers, stagger, stopFlag, policy, ops, lfail, exited, autoOpen, browser, sinkUp, waiter>>

(* ------------------------- readers of the table ----------------------- *)
\* The keys of the table whose Proc has a process that has not exited:
\* `proc.p and proc.p.poll() is None` over `self.controller.procs.items()`.
ActiveServices ==
    {procs[i].key : i \in {j \in 1..Len(procs) :
                              handles[procs[j].h].p /\ handles[procs[j].h].os = "alive"}}

\* One turn of the resource poller of the window: the table is read in a
\* `with self.controller.lock` block.
ResourcePoll ==
    /\ lock = "free"
    /\ out' = <<[e |-> "usage", by |-> "resource_monitor", live |-> ActiveServices]>>
    /\ UNCHANGED <<procs, handles, thr, mon, lock, rtimers, stagger, stopFlag, policy, ops,
                   orphans, lfail, exited, autoOpen, browser, sinkUp, waiter>>

\* The "active stack processes" part of the system-analysis report: the
\* table is read as it is, whoever holds the lock.
AnalyzeSystem ==
    /\ out' = <<[e |-> "usage", by |-> "analyze_system", live |-> ActiveServices]>>
    /\ UNCHANGED <<procs, handles, thr, mon, lock, rtimers, stagger, stopFlag, policy, ops,
                   orphans, lfail, exited, autoOpen, browser, sinkUp, waiter>>

(* ------------------------------- Spec --------------------------------- *)
\* The steps of _spawn, of start_frontend and of the restart timers, the
\* monitor and the processes.  The automatic restarts of a key are followed
\* `chain` deep.
Starts(chain) ==
    \/ \E t \in Threads :
          \/ SpawnCheck(t)
          \/ SpawnLaunch(t)
          \/ SpawnCommit(t)
          \/ SpawnAfter(t)
          \/ FrontendCheck(t)
          \/ RestartFire(t) /\ ChainOf(mon.key) < chain
          \/ RestartProc(t)
    \/ MonitorTick
    \/ ProcExit

\* The steps of _terminate.
Stops ==
    \E t \in Threads :
       \/ TerminateGet(t)
       \/ TerminatePoll(t)
       \/ TerminateKill(t)
       \/ TerminateCommit(t)

\* The supervisor under the commands Start Frontend, Run Migrations and
\* Stop All, given at any time.
Next ==
    \/ \E t \in Threads :
          \/ OpStartFrontend(t)
          \/ OpRunMigrations(t)
          \/ OpStopAll(t)
    \/ MonitorCheck
    \/ Starts(MaxChain)
    \/ Stops

Spec == Init /\ [][Next]_vars

\* Start Frontend given once, then Stop All given once, at any time.
NextStop ==
    \/ \E t \in Threads :
          \/ OpStartFrontend(t) /\ ops = 0
          \/ OpStopAll(t) /\ ops = 1
    \/ Starts(MaxChain)
    \/ Stops

\* That supervisor with a stop worker that keeps running: a thread in
\* _terminate takes its next step.  Every `with self.lock` block is one step
\* here and the monitor's tick over a table of one entry is one step too, so
\* the lock is free whenever the worker comes to ask for it.
Fairness ==
    \A t \in Threads :
       /\ WF_vars(TerminateGet(t))
       /\ WF_vars(TerminatePoll(t))
       /\ WF_vars(TerminateKill(t))
       /\ WF_vars(TerminateCommit(t))

SpecLive == Init /\ [][NextStop]_vars /\ Fairness

\* The crash loop: the frontend started once and left to the supervisor.
NextLoop ==
    \/ \E t \in Threads : OpStartFrontend(t) /\ ops = 0
    \/ Starts(ChainCap)

SpecLoop == Init /\ [][NextLoop]_vars

\* The frontend started once with "Auto-open browser" on and left to the
\* supervisor and to the openers.
NextBrowser ==
    \/ \E t \in Threads : OpStartFrontend(t) /\ ops = 0
    \/ Starts(MaxChain)
    \/ OpenerPoll
    \/ OpenerOpen
    \/ OpenerTimeout

SpecBrowser == InitBrowser /\ [][NextBrowser]_vars

\* Start Backend or Start All given once and the window closed at any time
\* after it, the stagger timers firing one after the other; the
\* interpreter ends at any time after that.
NextClose ==
    \/ \E t \in Threads :
          \/ OpStartBackend(t) /\ ops = 0
          \/ OnClose(t) /\ ops = 1
          \/ EnsureRedis(t)
          \/ MigrateStage(t)
          \/ ScheduleTimers(t)
          \/ StaggerFire(t) /\ \A u \in Threads : thr[u].kind # "timer_start"
          \/ DaphneConflict(t)
          \/ SpawnCheck(t)
          \/ SpawnLaunch(t)
          \/ SpawnCommit(t)
          \/ SpawnAfter(t)
          \/ FrontendCheck(t)
          \/ TerminateGet(t)
          \/ TerminatePoll(t)
          \/ TerminateKill(t)
          \/ TerminateCommit(t)
    \/ InterpreterExit

SpecClose == Init /\ [][NextClose]_vars

\* The state-change sink stops taking calls (its window is gone, or the
\* toolkit refuses the calling thread): from now on it raises.
SinkBreaks ==
    /\ sinkUp
    /\ sinkUp' = FALSE
    /\ out' = <<>>
    /\ UNCHANGED <<procs, handles, thr, mon, lock, rtimers, stagger, stopFlag, policy, ops,
                   orphans, lfail, exited, autoOpen, browser, waiter>>

\* Run Migrations, then Start Frontend, and the supervisor left to itself,
\* with a state-change sink that comes to raise.
NextSinks ==
    \/ \E t \in Threads :
          \/ OpRunMigrations(t) /\ ops = 0
          \/ OpStartFrontend(t) /\ ops = 1
    \/ Starts(MaxChain)
    \/ MonitorCheck
    \/ SinkBreaks

SpecSinks == Init /\ [][NextSinks]_vars

\* Start Frontend, then Stop All, the supervisor left to itself, with a
\* state-change sink that comes to raise.
NextStopSinks ==
    \/ \E t \in Threads :
          \/ OpStartFrontend(t) /\ ops = 0
          \/ OpStopAll(t) /\ ops = 1
    \/ Starts(MaxChain)
    \/ Stops
    \/ SinkBreaks

SpecStopSinks == Init /\ [][NextStopSinks]_vars

\* Run Migrations, then Start Frontend, and the supervisor left to itself,
\* the resource poller running and the analysis report asked for at any
\* time.
NextAccess ==
    \/ \E t \in Threads :
          \/ OpRunMigrations(t) /\ ops = 0
          \/ OpStartFrontend(t) /\ ops = 1
    \/ Starts(MaxChain)
    \/ MonitorCheck
    \/ ResourcePoll
    \/ AnalyzeSystem

SpecAccess == Init /\ [][NextAccess]_vars

\* Run Migrations, then Start Frontend or Stop All, the monitor, the restart
\* timers and the resource poller running; the monitor, once in its loop
\* over the table, goes on to the next entry.
NextLock ==
    \/ \E t \in Threads :
          \/ OpRunMigrations(t) /\ ops = 0
          \/ OpStartFrontend(t) /\ ops = 1
          \/ OpStopAll(t) /\ ops = 1
    \/ Starts(MaxChain)
    \/ Stops
    \/ MonitorCheck
    \/ ResourcePoll

SpecLock == Init /\ [][NextLock]_vars /\ WF_vars(MonitorCheck)

\* Start Backend given once, then Stop All at any time, the stagger timers
\* firing one after the other and the readiness waiters running.
NextReady ==
    \/ \E t \in Threads :
          \/ OpStartBackend(t) /\ ops = 0 /\ thr'[t].kind = "op_backend"
          \/ OpStopAll(t) /\ ops = 1
          \/ EnsureRedis(t)
          \/ MigrateStage(t)
          \/ ScheduleTimers(t)
          \/ StaggerFire(t) /\ \A u \in Threads : thr[u].kind # "timer_start"
          \/ DaphneConflict(t)
          \/ SpawnCheck(t)
          \/ SpawnLaunch(t)
          \/ SpawnCommit(t)
          \/ SpawnAfter(t)
          \/ TerminateGet(t)
          \/ TerminatePoll(t)
          \/ TerminateKill(t)
          \/ TerminateCommit(t)
    \/ WaiterRun

SpecReady == Init /\ [][NextReady]_vars

\* Start Frontend given once and the window closed at any time after it,
\* the monitor, the restart timers and the process going on meanwhile (the
\* interpreter is followed for as long as it lives).
NextShutdown ==
    \/ \E t \in Threads :
          \/ OpStartFrontend(t) /\ ops = 0
          \/ OnClose(t) /\ ops = 1
    \/ Starts(MaxChain)
    \/ Stops

SpecShutdown == Init /\ [][NextShutdown]_vars

\* That supervisor with a monitor thread that keeps running: its sleep ends
\* and, the lock being free (every other `with self.lock` block is one step
\* here), it does its tick.
SpecShutdownLive == SpecShutdown /\ WF_vars(MonitorTick)

\* Start All given once: its stagger timers fire as their delays pass,
\* whatever the stage routine started before and the readiness waiter are
\* doing (two stage routines are followed at a time).
NextStagger ==
    \/ \E t \in Threads :
          \/ OpStartBackend(t) /\ ops = 0 /\ thr'[t].kind = "op_all"
          \/ EnsureRedis(t)
          \/ MigrateStage(t)
          \/ ScheduleTimers(t)
          \/ StaggerFire(t) /\ Cardinality({u \in Threads : thr[u].kind = "timer_start"}) < 2
          \/ DaphneConflict(t)
          \/ SpawnCheck(t)
          \/ SpawnLaunch(t)
          \/ SpawnCommit(t)
          \/ SpawnAfter(t)
          \/ FrontendCheck(t)
    \/ WaiterRun

SpecStagger == Init /\ [][NextStagger]_vars

\* _http_ok on its own: the URL is requested, with any answer or none, and
\* the predicate is applied to what came back.
InitHttp ==
    /\ Built(TRUE)
    /\ \E r \in Responses : out = <<[e |-> "response", status |-> r]>>

SpecHttp == InitHttp /\ [][HttpProbe]_vars

\* _find_pids_on_port on its own: the connections are enumerated, in any
\* way, and the routine is applied to the enumeration.
InitListeners ==
    /\ Built(TRUE)
    /\ \E raw \in Enumerations : out = <<[e |-> "net_connections", raw |-> raw]>>

SpecListeners == InitListeners /\ [][FindPids]_vars

\* Start Backend given once and Stop All given while timers of that start
\* are pending; no other command follows.
NextStopPending ==
    \E t \in Threads :
       \/ OpStartBackend(t) /\ ops = 0 /\ thr'[t].kind = "op_backend"
       \/ OpStopAll(t) /\ ops = 1 /\ stagger # <<>>
       \/ EnsureRedis(t)
       \/ MigrateStage(t)
       \/ ScheduleTimers(t)
       \/ StaggerFire(t) /\ \A u \in Threads : thr[u].kind # "timer_start"
       \/ DaphneConflict(t)
       \/ SpawnCheck(t)
       \/ SpawnLaunch(t)
       \/ SpawnCommit(t)
       \/ SpawnAfter(t)
       \/ TerminateGet(t)
       \/ TerminatePoll(t)
       \/ TerminateKill(t)
       \/ TerminateCommit(t)

SpecStopPending == Init /\ [][NextStopPending]_vars

\* No thread of the supervisor is at work and no stagger timer is pending.
Quiet == stagger = <<>> /\ \A t \in Threads : thr[t].pc = "idle"

\* Start Backend / Start All and Stop All, each command given when the
\* previous one has finished, the processes staying up meanwhile.
NextPipeline ==
    \/ OpConfigure /\ ops = 0
    \/ \E t \in Threads :
          \/ OpStartBackend(t) /\ Quiet
          \/ OpStopAll(t) /\ Quiet
          \/ EnsureRedis(t)
          \/ MigrateStage(t)
          \/ ScheduleTimers(t)
          \/ StaggerFire(t) /\ \A u \in Threads : thr[u].pc = "idle"
          \/ DaphneConflict(t)
          \/ SpawnCheck(t)
          \/ SpawnLaunch(t)
          \/ SpawnCommit(t)
          \/ SpawnAfter(t)
          \/ FrontendCheck(t)
          \/ TerminateGet(t)
          \/ TerminatePoll(t)
          \/ TerminateKill(t)
          \/ TerminateCommit(t)
    \/ MonitorTick
    \/ MonitorCheck

SpecPipeline == Init /\ [][NextPipeline]_vars

(* ------------------------------ claims -------------------------------- *)
\* The OS processes of key k that are alive, held by a Proc or by no one.
LiveCount(k) ==
    Cardinality({h \in Heap : handles[h].key = k /\ handles[h].os = "alive"}) + orphans[k]

\* C1: at every moment, under every interleaving of the threads, each key
\* has at most one OS process alive.
C1_OneLiveProcessPerKey == \A k \in Keys : LiveCount(k) <= 1

\* C2: in the crash loop of an auto-restart service no 4th automatic
\* respawn is launched: no process is launched for a Proc that is the
\* restart number MaxRestarts + 1 in a row.
C2_NoFourthRespawn ==
    \A h \in Heap : handles[h].os # "none" => handles[h].chain <= MaxRestarts

\* C3: the restart timer of a crash detected on key K runs _restart_proc for
\* that same key K.
C3_RestartsSameKey ==
    \A t \in Threads : thr[t].kind = "timer_restart" => thr[t].key = thr[t].want

\* C4: automatic restarts keep the restart count: the handle tracked after
\* the n-th automatic restart in a row carries a count of n or more.
C4_CountSurvivesRestart ==
    \A i \in 1..Len(procs) :
       handles[procs[i].h].restart_count >= handles[procs[i].h].chain

\* The handle tracked for key k is Running with a live process.
RunningLive(k) ==
    /\ k \in TableKeys
    /\ handles[TableGet(k)].p
    /\ handles[TableGet(k)].os = "alive"
    /\ handles[TableGet(k)].status = "RUNNING"

AlreadyRunning(k) == <<[e |-> "log", what |-> "already_running", key |-> k]>>

\* C5: a start that comes to its idempotence check (the one of _spawn or the
\* one of start_frontend) while the key's handle is Running with a live
\* process launches nothing: no Proc is made or changed, the table and the
\* live processes (held or not) stay as they are, and the step logs one
\* "already running" line and nothing else.
C5_SecondSpawnIsNoOp ==
    [][\A t \in Threads :
          (/\ thr[t].pc \in {"sp_check", "fe_check"}
           /\ RunningLive(thr[t].key)
           /\ thr'[t] # thr[t])
          => (/\ handles' = handles
              /\ procs' = procs
              /\ orphans' = orphans
              /\ thr'[t].pc \notin {"sp_launch", "sp_commit"}
              /\ out' = AlreadyRunning(thr[t].key))]_vars

\* A second Run Migrations has just been turned away: one migrate process,
\* Running and alive, and the "already running" line.
C5_Witness ==
    /\ out = AlreadyRunning("migrate")
    /\ RunningLive("migrate")
    /\ LiveCount("migrate") = 1
    /\ ops = 2

\* The entry of the table the monitor's next step is about.
Visited == IF mon.pc = "sleep" THEN 1 ELSE mon.idx

\* The crash notifications for key k among the emissions es.
CrashNotes(es, k) ==
    Cardinality({j \in 1..Len(es) : es[j] = [e |-> "notify", what |-> "crash", key |-> k]})

\* The process of Proc h has exited while the Proc is recorded Running.
ExitedWhileRunning(h) ==
    /\ handles[h].p
    /\ handles[h].os = "exited"
    /\ handles[h].status = "RUNNING"

\* C6: when the monitor's tick comes to a tracked handle whose process has
\* exited while it is recorded Running, it sets it Failed, puts the exit code
\* in last_error and emits exactly one crash notification for its key; on any
\* other handle (so also on that one, at later ticks) the tick changes
\* nothing and emits no crash notification.
C6_CrashDetectedOnce ==
    [][((MonitorTick /\ procs # <<>>) \/ MonitorCheck) =>
          LET h == procs[Visited].h
              k == procs[Visited].key IN
          IF ExitedWhileRunning(h)
          THEN /\ handles'[h].status = "FAILED"
               /\ handles'[h].last_error = <<"Exited with code", handles[h].rc>>
               /\ CrashNotes(out', k) = 1
          ELSE /\ handles'[h] = handles[h]
               /\ \A kk \in Keys : CrashNotes(out', kk) = 0]_vars

\* The monitor has just found the frontend exited with code 1.
C6_Witness ==
    /\ CrashNotes(out, "frontend") = 1
    /\ "frontend" \in TableKeys
    /\ handles[TableGet("frontend")].status = "FAILED"
    /\ handles[TableGet("frontend")].last_error = <<"Exited with code", 1>>

\* The status event of key k with status st, replacing status w.
StatusEvent(k, st, w) == <<[e |-> "status", key |-> k, status |-> st, was |-> w]>>

\* C7: the step by which _terminate returns for a tracked key leaves the key
\* out of the table and the handle Stopped (the status it reports), whether
\* the handle was Running or Failed before.
C7_TerminatedIsStoppedAndGone ==
    [][\A t \in Threads :
          (thr[t].pc = "t_commit" /\ thr'[t] # thr[t])
          => (/\ thr[t].key \notin {procs'[i].key : i \in 1..Len(procs')}
              /\ out' = StatusEvent(thr[t].key, "STOPPED", handles[thr[t].h].status)
              /\ handles'[thr[t].h].status \in {"STOPPED", "FREE"}
              /\ thr'[t] = NextKey(t))]_vars

\* _terminate has just returned for a frontend that was Failed.
C7_Witness ==
    /\ out = StatusEvent("frontend", "STOPPED", "FAILED")
    /\ "frontend" \notin TableKeys
    /\ \E t \in Threads : thr[t].kind = "stop_all" /\ thr[t].idx = 2

\* C8: _terminate on a key that is not in the table returns at once: the
\* table, the Procs and the processes stay as they are, and the step emits
\* nothing (no signal, no status event, no error).
C8_TerminateUntrackedIsNoOp ==
    [][\A t \in Threads :
          (/\ thr[t].pc = "t_get"
           /\ thr[t].key \notin TableKeys
           /\ thr'[t] # thr[t])
          => (/\ procs' = procs
              /\ handles' = handles
              /\ orphans' = orphans
              /\ out' = <<>>
              /\ thr'[t] = NextKey(t))]_vars

\* Stop All, after Run Migrations only, has passed the frontend, which was
\* never started: the migrate process is still tracked and alive.
C8_Witness ==
    /\ \E t \in Threads : thr[t].kind = "stop_all" /\ thr[t].idx = 2
    /\ procs = <<[key |-> "migrate", h |-> 1]>>
    /\ handles[1].os = "alive"
    /\ \A h \in Heap : h # 1 => handles[h] = FreeProc
    /\ \A k \in Keys : orphans[k] = 0
    /\ out = <<>>

\* C10: a full stop takes the stages in the reverse of the start sequence:
\* while the stop worker is in _terminate on the process of a key, no key of
\* a later stage is still in the table.
C10_StopsInReverseStartOrder ==
    \A t \in Threads :
       (thr[t].kind = "stop_all" /\ thr[t].pc \in {"t_wait", "t_kill", "t_commit"})
       => \A k \in TableKeys : StartStage(k) <= StartStage(thr[t].key)

\* Thread t is the stop worker in its i-th call of _terminate.
InTerminate(t, i) == thr[t].kind = "stop_all" /\ thr[t].idx = i

KillSignal(h) == <<[e |-> "signal", what |-> "kill", h |-> h]>>

\* C9: _terminate always finishes.  Its poll loop makes PollLimit polls at
\* most; the check after the loop kills the process if and only if it is
\* alive then, and goes on to the last block; and the stop worker comes to
\* its end, so every call of _terminate it makes returns.
C9_TerminateFinishes ==
    /\ [][\A t \in Threads :
             /\ (thr[t].pc = "t_wait" /\ thr'[t] # thr[t])
                => (thr'[t].pc = "t_kill" /\ thr'[t].polls \in 1..PollLimit)
             /\ (thr[t].pc = "t_kill" /\ thr'[t] # thr[t])
                => (/\ thr'[t].pc = "t_commit"
                    /\ handles'[thr[t].h].os = "exited"
                    /\ (out' = KillSignal(thr[t].h)) <=> (handles[thr[t].h].os = "alive"))]_vars
    /\ \A t \in Threads :
          (thr[t].kind = "stop_all") ~> (thr[t].kind # "stop_all")

\* The frontend ignored the graceful stop through all the polls and has
\* just been killed; the last block of _terminate is what remains.
C9_Witness ==
    \E t \in Threads :
       /\ InTerminate(t, 1)
       /\ thr[t].pc = "t_commit"
       /\ thr[t].polls = PollLimit
       /\ out = KillSignal(thr[t].h)
       /\ handles[thr[t].h].rc = SigKillCode
       /\ handles[thr[t].h].os = "exited"


\* The events of kind e that a sequence of emissions holds.
EventsOf(es, e) == {es[j] : j \in {i \in 1..Len(es) : es[i].e = e}}

\* A step of the conflict flow: a thread leaves the port probe of
\* start_frontend or of start_daphne.
ConflictStep ==
    \E t \in Threads : /\ thr[t].pc \in {"fe_check", "sd_conflict"}
                       /\ thr'[t] # thr[t]

\* The answers the operator gave in the emissions es.
Answers(es) == {p.answer : p \in EventsOf(es, "prompt")}

\* C11: the conflict flow signals a listener only after the confirmation was
\* answered yes; when the answer is no, the dialog fails or there is no
\* display, no process is signalled and the conflict is only logged.
C11_KillOnlyAfterYes ==
    [][ConflictStep =>
          /\ EventsOf(out', "conflict_kill") # {} => Answers(out') = {"yes"}
          /\ Answers(out') # {"yes"} =>
                /\ handles' = handles
                /\ orphans' = orphans
                /\ procs' = procs
                /\ \A j \in 1..Len(out') : out'[j].e \in {"log", "prompt"}]_vars

\* A listener of the supervisor's own is up, the operator was asked and did
\* not say yes.
C11_Witness ==
    /\ Answers(out) # {}
    /\ Answers(out) \subseteq {"no", "error", "headless"}
    /\ \E p \in EventsOf(out, "prompt") : LiveCount(p.key) > 0


\* The step of thread t through subprocess.Popen in which no process comes up.
LaunchFails(t) ==
    /\ thr[t].pc = "sp_launch"
    /\ thr'[t] # thr[t]
    /\ thr'[t].pc # "sp_commit"

\* C12: whatever makes the launch fail (executable missing, not executable,
\* invalid working directory), _spawn returns without raising, with the
\* handle reported FAILED.
C12_LaunchFailureNeverRaises ==
    [][\A t \in Threads : LaunchFails(t) =>
          /\ EventsOf(out', "raise") = {}
          /\ [e |-> "status", key |-> thr[t].key, status |-> "FAILED"]
                \in EventsOf(out', "status")]_vars


\* C13: a launch failure is never retried automatically: once a start of a
\* key has ended FAILED at its launch, the monitor schedules no respawn for
\* that key until the operator starts the key again.
C13_LaunchFailureNotRetried ==
    [][\A k \in lfail \cap lfail' : rtimers'[k] <= rtimers[k]]_vars


\* The changes of status a Proc can go through: from its making (an address
\* that held no Proc) to STARTING, from STARTING to RUNNING or FAILED, from
\* RUNNING to FAILED, from RUNNING or FAILED to STOPPED; at any point the
\* Proc can be dropped.
AllowedEdge(a, b) ==
    \/ a = b
    \/ b = "FREE"
    \/ a = "FREE" /\ b = "STARTING"
    \/ a = "STARTING" /\ b \in {"RUNNING", "FAILED"}
    \/ a = "RUNNING" /\ b \in {"FAILED", "STOPPED"}
    \/ a = "FAILED" /\ b = "STOPPED"

\* Thread t goes through the last block of _terminate.
CommitsStop(t) == thr[t].pc = "t_commit" /\ thr'[t] # thr[t]

Stopping(k) ==
    \E s \in Threads : thr[s].key = k /\ thr[s].pc \in {"t_wait", "t_kill", "t_commit"}

\* Thread u returns from a _spawn that went through its launch while a
\* _terminate of its key was called, and that _terminate has returned.
BothReturned(u) ==
    /\ thr[u].pc = "sp_after"
    /\ thr[u].hit
    /\ thr'[u] # thr[u]
    /\ ~Stopping(thr[u].key)

\* C15: when _terminate(key) is called while a _spawn of the key is between
\* STARTING and the recording of its process, then once both calls have
\* returned the key is not in the table and no process of the key is alive.
C15_StopDuringStartWins ==
    [][\A u \in Threads : BothReturned(u) =>
          /\ thr[u].key \notin {procs'[i].key : i \in 1..Len(procs')}
          /\ \A h \in Heap : ~(handles'[h].key = thr[u].key /\ handles'[h].os = "alive")
          /\ orphans'[thr[u].key] = 0]_vars


\* C16: once the shutdown flag is set, a pending timer that fires (a stagger
\* timer of start_backend / start_all or a delayed restart) skips its action:
\* its thread launches no process.
C16_LateTimerSpawnsNothing ==
    [][\A t \in Threads :
          thr[t].late => ~(thr[t].pc = "sp_launch" /\ thr'[t].pc = "sp_commit")]_vars


\* Thread t, a restart timer's, goes through _restart_proc.
RestartStep(t) == thr[t].pc = "rp_check" /\ thr'[t] # thr[t]

\* C17: a delayed restart that fires for a key which _terminate has removed
\* from the table since the crash was detected does nothing: no start
\* routine is entered, nothing is launched, no error is raised, and the key
\* stays absent.
C17_RestartOfRemovedKeyIsNoOp ==
    [][\A t \in Threads :
          RestartStep(t) /\ thr[t].key \notin TableKeys =>
             /\ thr'[t] = IdleThread
             /\ procs' = procs
             /\ handles' = handles
             /\ orphans' = orphans
             /\ out' = <<>>]_vars

\* The timer of a crash of the frontend has fired after Stop All took the
\* frontend out of the table.
C17_Witness ==
    \E t, s \in Threads :
       /\ thr[t].pc = "rp_check"
       /\ thr[t].key = "frontend"
       /\ thr[t].want = "frontend"
       /\ "frontend" \notin TableKeys
       /\ thr[s].kind = "stop_all"
       /\ thr[s].idx > 1


\* What the emissions es log.
Logged(es) == {l.what : l \in EventsOf(es, "log")}

\* C18: start_frontend goes on to its spawn only if its port was probed
\* closed, or the operator consented to the kill, a listener was signalled
\* and the probe after it found the port closed; with the port held by
\* another program and the conflict unresolved it never spawns.
C18_FrontendSpawnsOnlyOnFreePort ==
    [][\A t \in Threads :
          thr[t].pc = "fe_check" /\ thr'[t].pc = "sp_check" =>
             \/ out' = <<>>
             \/ /\ Answers(out') = {"yes"}
                /\ EventsOf(out', "conflict_kill") # {}
                /\ Logged(out') = {"port_in_use"}]_vars

\* The frontend start goes on to its spawn after the operator had the
\* listeners on its port killed.
C18_Witness ==
    \E t \in Threads :
       /\ thr[t].pc = "sp_check"
       /\ thr[t].key = "frontend"
       /\ EventsOf(out, "conflict_kill") # {}
       /\ Answers(out) = {"yes"}


\* C19: in a session, whatever the restarts of the frontend and the
\* interleaving of the opener threads, the default viewer is opened at most
\* once.
C19_ViewerOpenedAtMostOnce == browser.opens <= 1


\* The services started without auto_restart: the broker's launcher and the
\* one-shot migrate.
OneShot == {k \in Keys : ~AutoRestartOf(k)}

\* A thread doing a command of the operator on key k takes a step.
OperatorActs(k) ==
    \E t \in Threads :
       /\ thr[t].kind \in {"op_migrate", "op_backend", "op_all", "stop_all"}
       /\ thr[t].key = k
       /\ thr'[t] # thr[t]

\* C20: a service without auto-restart is never respawned automatically: the
\* monitor schedules no restart for it, no restart timer enters its start
\* routine, and once its exit is detected its handle stays FAILED, as it is,
\* until the operator acts on the key, whatever else crashes or restarts.
C20_OneShotNeverRespawned ==
    [][/\ \A k \in OneShot : rtimers'[k] = 0
       /\ \A t \in Threads :
             thr'[t].kind = "timer_restart" /\ thr'[t].pc # "rp_check"
                => thr'[t].key \notin OneShot
       /\ \A k \in OneShot :
             (k \in TableKeys /\ handles[TableGet(k)].status = "FAILED")
                => \/ OperatorActs(k)
                   \/ /\ [key |-> k, h |-> TableGet(k)] \in {procs'[i] : i \in 1..Len(procs')}
                      /\ handles'[TableGet(k)] = handles[TableGet(k)]]_vars

\* In one tick the monitor has found migrate exited, then the frontend, and
\* has scheduled a restart for the frontend only; migrate is FAILED.
C20_Witness ==
    /\ "migrate" \in TableKeys
    /\ handles[TableGet("migrate")].status = "FAILED"
    /\ handles[TableGet("migrate")].restart_count = 0
    /\ CrashNotes(out, "frontend") = 1
    /\ rtimers["frontend"] = 1
    /\ rtimers["migrate"] = 0
    /\ mon.key = "frontend"


\* The monitor takes a turn of its loop over a table that is not empty.
MonitorTurn == mon' # mon /\ mon.pc \in {"sleep", "iter"} /\ procs # <<>>

\* C21: in a tick of the monitor, a failure while one service is processed
\* (a sink that raises) aborts neither the checks of the services after it in
\* the table nor the later ticks: after its turn on an entry the monitor goes
\* on to the next entry, and after the last one to its next sleep.
C21_TickSurvivesFailure ==
    [][MonitorTurn =>
          IF Visited < Len(procs)
          THEN mon'.pc = "iter" /\ mon'.idx = Visited + 1
          ELSE mon'.pc = "sleep"]_vars

(* -------------------------------- C22 --------------------------------- *)
\* A step in which the table and the process references of its handles are
\* read by the reader `by`.
TableRead(by) == out' # <<>> /\ out'[1].e = "usage" /\ out'[1].by = by

\* C22: the resource poller and the system-analysis report read the table
\* and the fields of its handles only while they hold the lock, hence never
\* while the monitor holds it.
C22_TableReadUnderLock ==
    [][\A by \in {"resource_monitor", "analyze_system"} :
          TableRead(by) => lock = "free"]_vars

(* -------------------------------- C23 --------------------------------- *)
\* A step in which a thread launches a process (Popen), waits for a process
\* to exit in _terminate (the poll loop, the kill), or a waiter probes the
\* port of the primary server.
Blocking ==
    \/ \E t \in Threads : thr[t].pc \in {"sp_launch", "t_wait", "t_kill"} /\ thr'[t] # thr[t]
    \/ waiter'.polling < waiter.polling

\* A step in which _spawn or _terminate commits its state transition.
Commits == \E t \in Threads : thr[t].pc \in {"sp_commit", "t_commit"} /\ thr'[t] # thr[t]

\* C23: a thread that launches a process, waits for one to exit or probes a
\* port holds no lock while it does, and leaves the lock as it is; the lock
\* is taken again for the commit only, and free after it.
C23_NoBlockingUnderLock ==
    [][/\ Blocking => lock # "thread" /\ lock' = lock
       /\ Commits => lock = "free" /\ lock' = "free"]_vars

\* A stop worker has waited out the whole poll loop of _terminate while
\* another thread stands before the commit of its _spawn and a waiter
\* probes the port, the lock free.
C23_Witness ==
    /\ lock = "free"
    /\ waiter.polling > 0
    /\ \E t, u \in Threads :
          /\ thr[t].pc = "t_kill" /\ thr[t].polls = PollLimit
          /\ thr[u].pc = "sp_commit"

(* -------------------------------- C24 --------------------------------- *)
\* The monitor comes to the test of its loop (its tick is over, or raised).
LoopTest == mon.pc = "sleep" /\ mon'.pc \in {"sleep", "exit"} /\ mon' # mon

\* A Proc recorded Running is marked Failed in this step.
MarksFailed ==
    \E h \in Heap : handles[h].status = "RUNNING" /\ handles'[h].status = "FAILED"

C25_MonitorExitsAfterFlag ==
    /\ [][stopFlag /\ mon.pc = "sleep" /\ mon' # mon => mon'.pc = "exit"]_vars
    /\ stopFlag ~> mon.pc = "exit"

\* The monitor has left its loop while the stop worker of on_close is still
\* before the last block of a _terminate.
C25_Witness ==
    /\ stopFlag
    /\ mon.pc = "exit"
    /\ \E t \in Threads : thr[t].kind = "stop_all" /\ thr[t].pc = "t_commit"

(* -------------------------------- C26 --------------------------------- *)
\* Thread t runs start_backend (for Start Backend or for Start All).
InStartSequence(t) == thr[t].kind \in {"op_backend", "op_all"}

\* C26: whatever comes of ensure_redis and of migrate_db, a start sequence
\* ends only by scheduling the timers of the primary server, the scheduler
\* and the worker; and the port check of the primary server, whatever it
\* finds, goes on to the spawn and takes no pending timer away.
C26_StagesAlwaysInitiated ==
    [][\A t \in Threads :
          /\ (InStartSequence(t) /\ thr'[t].kind \notin {"op_backend", "op_all"})
                => stagger' = stagger \o StaggerOf(thr[t].kind)
          /\ (thr[t].pc = "sd_conflict" /\ thr'[t] # thr[t])
                => (thr'[t].pc = "sp_check" /\ stagger' = stagger)]_vars

(* -------------------------------- C27 --------------------------------- *)
\* Thread t is the thread of a stagger timer that fires in this step.
StageInit(t) == thr[t].pc = "idle" /\ thr'[t].kind = "timer_start"

\* C27: the stage routines of a full start sequence are initiated by its
\* timers in the order daphne, celery_beat, celery_worker, frontend: the
\* sequence sets one timer per stage, and when a timer fires its routine
\* starts and every timer still pending is for a later stage.  A pending
\* timer can fire whenever a thread is to be had, whatever the earlier
\* stages have come to.
C27_StagesInOrderByTimers ==
    /\ [][\A t \in Threads :
             /\ (thr[t].pc = "timers" /\ thr[t].kind = "op_all" /\ thr'[t] # thr[t])
                   => stagger' = <<"daphne", "celery_beat", "celery_worker", "frontend">>
             /\ StageInit(t)
                   => /\ thr'[t].key = Head(stagger)
                      /\ thr'[t].pc = EntryPc(thr'[t].key)
                      /\ \A i \in 1..Len(stagger') :
                            StartStage(stagger'[i]) > StartStage(thr'[t].key)]_vars
    /\ [](stagger # <<>> /\ (\E t \in Threads : thr[t].pc = "idle")
            => ENABLED (\E t \in Threads : StaggerFire(t)))

\* The timer of the scheduler has fired while the primary server is not
\* ready: the thread of its routine is still before the launch and no
\* waiter has been started yet.
C27_Witness ==
    /\ stagger = <<"celery_worker", "frontend">>
    /\ waiter.polling = 0
    /\ TableGet("daphne") = 0
    /\ \E t, u \in Threads :
          /\ thr[t].key = "daphne" /\ thr[t].pc = "sp_launch"
          /\ thr[u].key = "celery_beat" /\ thr[u].pc = "sp_check"

(* -------------------------------- C28 --------------------------------- *)
\* A readiness waiter runs to its end in this step.
WaiterEnds == waiter'.polling < waiter.polling

NotReachable == <<[e |-> "log", what |-> "daphne_not_reachable", key |-> "daphne"]>>

\* C28: a readiness waiter of the primary server makes 120 probes at most
\* and ends; it changes neither the table nor any handle nor any process,
\* sends no signal, and when no probe was answered it logs one line and
\* nothing else.
C28_WaiterProbesAtMostLimit ==
    [][WaiterEnds =>
          /\ waiter'.probes \in 1..WaitLimit
          /\ waiter'.polling = waiter.polling - 1
          /\ UNCHANGED <<procs, handles, thr, rtimers, stagger, orphans, lock>>
          /\ EventsOf(out', "signal") = {}
          /\ EventsOf(out', "status") = {}
          /\ Len(out') = 1 /\ out'[1].e = "log"
          /\ (out' = NotReachable) => waiter'.probes = WaitLimit]_vars

\* A waiter has given up after its last probe while the primary server is
\* tracked, recorded Running and alive.
C28_Witness ==
    /\ out = NotReachable
    /\ waiter.probes = WaitLimit
    /\ TableGet("daphne") # 0
    /\ handles[TableGet("daphne")].status = "RUNNING"
    /\ handles[TableGet("daphne")].os = "alive"

(* -------------------------------- C29 --------------------------------- *)
\* The kinds of thread a start sequence runs on: the one of start_backend
\* and the ones of its timers.
SequenceKinds == {"op_backend", "op_all", "timer_start"}

\* C29: a start sequence spawns migrate if and only if the migration
\* policy is "always": it goes from ensure_redis into the spawn of migrate
\* exactly when the policy is "always", no thread of a start sequence comes
\* to the key migrate in any other way (so with "manual" none ever does),
\* and with "always" start_backend does not end before it has come to that
\* spawn.
C29_MigrateIffPolicyAlways ==
    [][\A t \in Threads :
          /\ (thr[t].pc = "mig" /\ thr'[t] # thr[t])
                => ((thr'[t].key = "migrate" /\ thr'[t].pc = "sp_check") <=> policy = "always")
          /\ (thr'[t].kind \in SequenceKinds /\ thr'[t].key = "migrate" /\ thr[t].key # "migrate")
                => (thr[t].pc = "mig" /\ policy = "always")
          /\ (InStartSequence(t) /\ thr'[t].kind \notin {"op_backend", "op_all"}
                               /\ policy = "always")
                => (thr[t].pc = "timers" \/ thr[t].key = "migrate")]_vars

(* -------------------------------- C30 --------------------------------- *)
\* C30: _http_ok returns true for every response with a status below 500
\* (informational, success, redirect and client error alike), and false
\* for every status of 500 or more and when no response is obtained.
C30_HttpOkBelow500 ==
    \A i \in 1..Len(out) :
       out[i].e = "http_ok"
          => (out[i].ok <=> (out[i].status # NoResponse /\ out[i].status < 500))

(* -------------------------------- C31 --------------------------------- *)
\* The positions of the enumeration raw that are listeners of the port with
\* a pid, and the first of them that has pid p.
Listening(raw) == {i \in 1..Len(raw) : raw[i].here /\ raw[i].listen /\ raw[i].pid # NoPid}
FirstOf(raw, p) ==
    CHOOSE i \in Listening(raw) :
       raw[i].pid = p /\ \A j \in Listening(raw) : raw[j].pid = p => i <= j

\* C31: _find_pids_on_port returns each pid that listens on the port in the
\* enumeration exactly once, in the order of the first occurrences, each
\* with the name and command line of its first occurrence.
C31_ListenersDeduplicated ==
    \A n \in 1..Len(out) :
       out[n].e = "listeners" =>
          LET raw == out[n].raw
              uniq == out[n].uniq IN
          /\ {uniq[i].pid : i \in 1..Len(uniq)} = {raw[i].pid : i \in Listening(raw)}
          /\ \A i, j \in 1..Len(uniq) :
                /\ i # j => uniq[i].pid # uniq[j].pid
                /\ i < j => FirstOf(raw, uniq[i].pid) < FirstOf(raw, uniq[j].pid)
          /\ \A i \in 1..Len(uniq) : uniq[i].info = raw[FirstOf(raw, uniq[i].pid)].info

\* An enumeration in which pid 2 listens on the port, then comes a
\* connection that is not listed, then pid 2 again under another name: the
\* routine has returned pid 2 once, under its first name.
C31_Witness ==
    /\ out # <<>> /\ out[1].e = "listeners"
    /\ Len(out[1].raw) = MaxConns
    /\ Listening(out[1].raw) = {1, MaxConns}
    /\ out[1].raw[1].pid = 2 /\ out[1].raw[MaxConns].pid = 2
    /\ out[1].raw[1].info # out[1].raw[MaxConns].info
    /\ out[1].uniq = <<[pid |-> 2, info |-> out[1].raw[1].info]>>

(* -------------------------------- C32 --------------------------------- *)
\* C32: when start_daphne is entered while the primary server of the
\* supervisor is tracked and alive, its port check leaves that process
\* alone: the process is not signalled by the conflict flow.
C32_OwnServerNotInConflictFlow ==
    [][\A t \in Threads :
          (thr[t].pc = "sd_conflict" /\ thr'[t] # thr[t] /\ LiveTracked("daphne"))
             => /\ handles'[TableGet("daphne")].os = "alive"
                /\ EventsOf(out', "conflict_kill") = {}]_vars

(* -------------------------------- C33 --------------------------------- *)
\* The _spawn that launched the process of Proc h has returned.
SpawnReturned(h) ==
    \A t \in Threads : ~(thr[t].h = h /\ thr[t].pc \in {"sp_launch", "sp_commit", "sp_after"})

\* C33: every process the supervisor launched that is alive, its _spawn
\* having returned, is the process of the Proc the table holds under its
\* key: none is held by a Proc out of the table, and none by no Proc.
C33_LiveProcessesTracked ==
    /\ \A k \in Keys : orphans[k] = 0
    /\ \A h \in Heap :
          (handles[h].os = "alive" /\ SpawnReturned(h)) => TableGet(handles[h].key) = h

(* -------------------------------- C34 --------------------------------- *)
\* Stop All was given (after the one start) and its worker has ended.
StopAllCompleted == ops = 2 /\ \A t \in Threads : thr[t].kind # "stop_all"

\* C34: Stop All having been given while stagger timers were pending, and
\* no start after it, then once its worker has ended no service is running:
\* no process of a key is alive and no Proc is recorded Running.
C34_NothingRunsAfterStopAll ==
    StopAllCompleted =>
       /\ \A k \in Keys : LiveCount(k) = 0
       /\ \A h \in Heap : handles[h].status # "RUNNING"

(* -------------------------------- C35 --------------------------------- *)
\* A _terminate of Proc h has sent its stop signal and has not yet removed
\* the handle, and the process has exited on that signal.
StoppedByTerminate(h) ==
    /\ \E t \in Threads : thr[t].h = h /\ thr[t].pc \in {"t_wait", "t_kill", "t_commit"}
    /\ handles[h].os = "exited"
    /\ handles[h].rc \in {SigTermCode, SigKillCode}

\* C35: the monitor never marks Failed, reports as crashed or schedules a
\* restart for a Proc whose process exited on the signal of a _terminate
\* that is still in progress.
C35_StopIsNotACrash ==
    [][\A h \in Heap :
          (StoppedByTerminate(h) /\ handles[h].status = "RUNNING")
             => /\ handles'[h].status # "FAILED"
                /\ CrashNotes(out', handles[h].key) = 0
                /\ rtimers'[handles[h].key] <= rtimers[handles[h].key]]_vars

(* -------------------------------- C36 --------------------------------- *)
\* C36: after on_close every tracked live process is terminated before the
\* supervisor's own process ends: at the step in which the interpreter
\* exits, no Proc of the table has a process still alive.
C36_TrackedStoppedBeforeExit ==
    [][(~exited /\ exited')
          => \A i \in 1..Len(procs) : handles[procs[i].h].os # "alive"]_vars

(* -------------------------------- C37 --------------------------------- *)
\* A thread stands before one of its `with self.lock:` blocks.
AtLockBlock(t) == thr[t].pc \in {"sp_check", "sp_commit", "fe_check", "rp_check", "t_get", "t_commit"}

\* C37: the lock is never asked for by the thread that holds it and is
\* always released: whenever it is held, the holder is the monitor inside
\* its loop over the table, whose next step needs no lock, and the lock
\* comes free again.
C37_LockNeverDeadlocks ==
    /\ [](lock # "free" => (lock = "monitor" /\ mon.pc = "iter" /\ ENABLED MonitorCheck))
    /\ (lock # "free" ~> lock = "free")

\* The monitor holds the lock in the middle of its loop while the thread of
\* a restart timer stands before the lookup of _restart_proc and waits for
\* it.
C37_Witness ==
    /\ lock = "monitor"
    /\ mon.pc = "iter"
    /\ \E t \in Threads : thr[t].pc = "rp_check" /\ AtLockBlock(t)

(* -------------------------------- C38 --------------------------------- *)
\* C38: the readiness waiter of start_daphne logs the server as reachable
\* only while a daphne launched by this supervisor is in the table, Running
\* and alive; a port answered by some other process is not reported.
C38_ReachableMeansOwnServer ==
    [][EventsOf(out', "log") \cap {[e |-> "log", what |-> "daphne_reachable", key |-> "daphne"]} # {}
          => /\ LiveTracked("daphne")
             /\ handles[TableGet("daphne")].status = "RUNNING"]_vars

(* -------------------------------- C39 --------------------------------- *)
\* The table holds for key k a Proc with a process reference whose process
\* is alive.
FindsLive(k) ==
    /\ k \in TableKeys
    /\ handles[TableGet(k)].p
    /\ handles[TableGet(k)].os = "alive"

\* C39: a start that comes to its check (the one of _spawn or the one of
\* start_frontend) and finds a live handle for its key changes neither the
\* table nor that handle: status, process reference, start time, restart
\* count and last error stay as they are, and so does the process.
C39_StartOnLiveHandleChangesNothing ==
    [][\A t \in Threads :
          (/\ thr[t].pc \in {"sp_check", "fe_check"}
           /\ FindsLive(thr[t].key)
           /\ thr'[t] # thr[t])
          => (/\ procs' = procs
              /\ handles'[TableGet(thr[t].key)] = handles[TableGet(thr[t].key)])]_vars

\* Start Frontend has just found the frontend tracked and alive, its start
\* time recorded, has logged so and has returned; no thread is at work.
C39_Witness ==
    /\ out = AlreadyRunning("frontend")
    /\ FindsLive("frontend")
    /\ handles[TableGet("frontend")].start_time
    /\ thr = [t \in Threads |-> IdleThread]

(* -------------------------------- C40 --------------------------------- *)
\* C40: whenever the lock is free, every Proc of the table has a process
\* reference and is Running or Failed; a Proc that is Starting or Stopped,
\* or whose launch failed, is not in the table.
C40_TableHoldsLaunchedOnly ==
    lock = "free" =>
       \A i \in 1..Len(procs) :
          /\ handles[procs[i].h].p
          /\ handles[procs[i].h].status \in {"RUNNING", "FAILED"}
          /\ handles[procs[i].h].last_error # <<"FileNotFoundError">>
====
